---- MODULE Spec2Model ----
(***************************************************************************)
(* A model of src/scrape.py: the embedded-JSON extractor, the tolerant     *)
(* path navigator, the title classifier, the relative-date normalizer,     *)
(* the publish-time resolution of extract_video_details, the listing       *)
(* fetch and the item loop of main.                                        *)
(*                                                                         *)
(* Python strings are TLA+ strings, read with Len, SubSeq and \o.          *)
(* Positions are 1-based; 0 stands for str.find's -1.                      *)
(* JSON values are tagged records: null, str, int, list (a sequence) and   *)
(* dict (a sequence of <<key, value>> pairs in insertion order).  A call   *)
(* that raises yields the value Raised.                                    *)
(*                                                                         *)
(* Each function is exercised by a specification of its own: the initial   *)
(* states draw its arguments, one action applies it.  The variables of the *)
(* other functions stay idle.                                              *)
(***************************************************************************)
EXTENDS Integers, Sequences, FiniteSets, TLC

VARIABLES
    \* extract_json_from_html: the page, the object its literal was written from,
    \* the value returned
    html, page_obj, ej_ret, ej_pc,
    \* safe_get: the arguments and the value returned
    sg_d, sg_keys, sg_default, sg_ret, sg_pc,
    \* extract_teacher_name_from_title: the argument and the label returned
    tn_title, teacher_name, tn_pc,
    \* parse_relative_published: the argument, date.today(), the pair returned
    rel_text, rel_today, rel_ret, rel_pc,
    \* extract_video_details: the watch page outcome, approx_published_text,
    \* date.today(), datetime.now(timezone.utc), the tuple returned
    evd_watch, evd_approx, evd_today, evd_now, evd_ret, evd_pc,
    \* fetch_channel_videos: the answers of the three listing URLs, the list returned,
    \* the total main prints
    fc_responses, videos, total, fc_pc,
    \* main: the tiles, the position of the loop, the records assembled, the calls
    \* made so far, where an exception left the loop, and the environment of the
    \* detail fetches
    videos_data, video_index, livestream_data, calls, raised_at, main_pc,
    main_watch, main_today, main_now

ej_vars == <<html, page_obj, ej_ret, ej_pc>>
sg_vars == <<sg_d, sg_keys, sg_default, sg_ret, sg_pc>>
tn_vars == <<tn_title, teacher_name, tn_pc>>
rel_vars == <<rel_text, rel_today, rel_ret, rel_pc>>
evd_vars == <<evd_watch, evd_approx, evd_today, evd_now, evd_ret, evd_pc>>
fc_vars == <<fc_responses, videos, total, fc_pc>>
main_vars ==
    <<videos_data, video_index, livestream_data, calls, raised_at, main_pc,
      main_watch, main_today, main_now>>

vars == <<ej_vars, sg_vars, tn_vars, rel_vars, evd_vars, fc_vars, main_vars>>

(***************************************************************************)
(* Bounds of the model.                                                    *)
(***************************************************************************)
\* the longest string value inside a page's object literal
MaxStrLen == 2
\* the longest key path given to safe_get
MaxPath == 3
\* the most vocabulary words in a title
MaxTitleWords == 3
\* the largest count in a relative publish text, besides the far one
MaxCount == 3
\* how many ordinary tiles beyond TARGET_LIVESTREAMS a listing may hold
MaxOver == 1

(***************************************************************************)
(* String primitives.                                                      *)
(***************************************************************************)
Ch(s, i) == IF i >= 1 /\ i <= Len(s) THEN SubSeq(s, i, i) ELSE ""

StartsWithAt(s, i, k) ==
    /\ i >= 1
    /\ i + Len(k) - 1 <= Len(s)
    /\ SubSeq(s, i, i + Len(k) - 1) = k

\* Python: k in s
Contains(s, k) == \E i \in 1..(Len(s) - Len(k) + 1) : StartsWithAt(s, i, k)

\* Python: s.find(k, from), 1-based, 0 when absent
Find(s, k, from) ==
    LET hits == {i \in from..(Len(s) - Len(k) + 1) : StartsWithAt(s, i, k)}
    IN IF hits = {} THEN 0 ELSE CHOOSE i \in hits : \A j \in hits : i <= j

IsSpace(c) == c \in {" ", "\n", "\t"}

RECURSIVE SkipSpaces(_, _)
SkipSpaces(s, i) ==
    IF i <= Len(s) /\ IsSpace(Ch(s, i)) THEN SkipSpaces(s, i + 1) ELSE i

(***************************************************************************)
(* JSON values and Python's None.                                          *)
(***************************************************************************)
None == [tag |-> "null", val |-> 0]
JStr(s) == [tag |-> "str", val |-> s]
JInt(n) == [tag |-> "int", val |-> n]
JList(q) == [tag |-> "list", val |-> q]
JDict(q) == [tag |-> "dict", val |-> q]

\* the outcome of a call that raised instead of returning
Raised == [tag |-> "raised", val |-> 0]

(***************************************************************************)
(* json.loads on objects, arrays, strings, null and unsigned integers.     *)
(* A parse step returns the value and the position after it, or ok = FALSE *)
(* (json.JSONDecodeError).                                                 *)
(***************************************************************************)
Fail == [ok |-> FALSE, val |-> None, next |-> 0]

RECURSIVE ScanString(_, _, _)
ScanString(s, j, acc) ==
    IF j > Len(s) THEN Fail
    ELSE IF Ch(s, j) = "\"" THEN [ok |-> TRUE, val |-> JStr(acc), next |-> j + 1]
    ELSE IF Ch(s, j) = "\\"
         THEN IF Ch(s, j + 1) \in {"\"", "\\", "/"}
              THEN ScanString(s, j + 2, acc \o Ch(s, j + 1))
              ELSE Fail
    ELSE ScanString(s, j + 1, acc \o Ch(s, j))

IsDigit(c) == c \in {"0", "1", "2", "3", "4", "5", "6", "7", "8", "9"}

DigitValue(c) == Find("0123456789", c, 1) - 1

\* int(s) for a string of decimal digits
RECURSIVE IntOfDigits(_)
IntOfDigits(s) ==
    IF s = "" THEN 0
    ELSE IntOfDigits(SubSeq(s, 1, Len(s) - 1)) * 10 + DigitValue(Ch(s, Len(s)))

\* the end of the run of digits that starts at i
RECURSIVE DigitsEnd(_, _)
DigitsEnd(s, i) == IF IsDigit(Ch(s, i + 1)) THEN DigitsEnd(s, i + 1) ELSE i

RECURSIVE ParseValue(_, _)
RECURSIVE ParseMembers(_, _, _)
RECURSIVE ParseElements(_, _, _)

\* dict[key] = value while parsing: a repeated key keeps its place, takes the new value
PutItem(items, k, v) ==
    IF \E n \in 1..Len(items) : items[n][1] = k
    THEN [n \in 1..Len(items) |-> IF items[n][1] = k THEN <<k, v>> ELSE items[n]]
    ELSE Append(items, <<k, v>>)

ParseMembers(s, i, items) ==
    LET kpos == SkipSpaces(s, i)
        key == IF Ch(s, kpos) = "\"" THEN ScanString(s, kpos + 1, "") ELSE Fail
        colon == IF key.ok THEN SkipSpaces(s, key.next) ELSE 0
        v == IF key.ok /\ Ch(s, colon) = ":" THEN ParseValue(s, colon + 1) ELSE Fail
        after == IF v.ok THEN SkipSpaces(s, v.next) ELSE 0
        got == PutItem(items, key.val.val, v.val)
    IN IF ~v.ok THEN Fail
       ELSE IF Ch(s, after) = "," THEN ParseMembers(s, after + 1, got)
       ELSE IF Ch(s, after) = "}" THEN [ok |-> TRUE, val |-> JDict(got), next |-> after + 1]
       ELSE Fail

ParseElements(s, i, elems) ==
    LET v == ParseValue(s, i)
        after == IF v.ok THEN SkipSpaces(s, v.next) ELSE 0
        got == Append(elems, v.val)
    IN IF ~v.ok THEN Fail
       ELSE IF Ch(s, after) = "," THEN ParseElements(s, after + 1, got)
       ELSE IF Ch(s, after) = "]" THEN [ok |-> TRUE, val |-> JList(got), next |-> after + 1]
       ELSE Fail

ParseValue(s, i) ==
    LET p == SkipSpaces(s, i)
    IN IF Ch(s, p) = "\"" THEN ScanString(s, p + 1, "")
       ELSE IF Ch(s, p) = "["
            THEN IF Ch(s, SkipSpaces(s, p + 1)) = "]"
                 THEN [ok |-> TRUE, val |-> JList(<<>>), next |-> SkipSpaces(s, p + 1) + 1]
                 ELSE ParseElements(s, p + 1, <<>>)
       ELSE IF StartsWithAt(s, p, "null") THEN [ok |-> TRUE, val |-> None, next |-> p + 4]
       ELSE IF IsDigit(Ch(s, p)) /\ (Ch(s, p) # "0" \/ ~IsDigit(Ch(s, p + 1)))
            THEN [ok |-> TRUE, val |-> JInt(IntOfDigits(SubSeq(s, p, DigitsEnd(s, p)))),
                  next |-> DigitsEnd(s, p) + 1]
       ELSE IF Ch(s, p) = "{"
            THEN IF Ch(s, SkipSpaces(s, p + 1)) = "}"
                 THEN [ok |-> TRUE, val |-> JDict(<<>>), next |-> SkipSpaces(s, p + 1) + 1]
                 ELSE ParseMembers(s, p + 1, <<>>)
       ELSE Fail

\* json.loads(s): the value, or Raised when the text is not one JSON value
json_loads(s) ==
    LET r == ParseValue(s, 1)
    IN IF r.ok /\ SkipSpaces(s, r.next) = Len(s) + 1 THEN r.val ELSE Raised

(***************************************************************************)
(* safe_get(d, *keys, default)                                             *)
(***************************************************************************)
HasKey(d, k) == \E n \in 1..Len(d.val) : d.val[n][1] = k

\* d.get(k, default): JSON mappings have string keys only
DictGet(d, k, default) ==
    IF k.tag = "str" /\ HasKey(d, k.val)
    THEN d.val[CHOOSE n \in 1..Len(d.val) : d.val[n][1] = k.val][2]
    ELSE default

\* d[k] for a list: a negative k counts from the end, IndexError outside -len..len-1
ListItem(d, k) ==
    IF k >= 0 /\ k < Len(d.val) THEN d.val[k + 1]
    ELSE IF k < 0 /\ k >= -Len(d.val) THEN d.val[Len(d.val) + k + 1]
    ELSE Raised

RECURSIVE safe_get(_, _, _)
safe_get(d, keys, default) ==
    IF keys = <<>> THEN d
    ELSE IF d.tag = "dict"
         THEN safe_get(DictGet(d, Head(keys), default), Tail(keys), default)
    ELSE IF d.tag = "list" /\ Head(keys).tag = "int"
         THEN IF Head(keys).val < Len(d.val)
              THEN IF ListItem(d, Head(keys).val) = Raised THEN Raised
                   ELSE safe_get(ListItem(d, Head(keys).val), Tail(keys), default)
              ELSE default
    ELSE default

(***************************************************************************)
(* extract_json_from_html                                                  *)
(***************************************************************************)
\* the first q > p with "}" at q and ";" at q + 1, or 0: the end of the lazy group \{.*?\} before ;
LazyEnd(s, p) == Find(s, "};", p + 1)

\* whether  var <name>\s*=\s*(\{.*?\});  matches starting at i, and the group it captures
PatternAt(s, name, i) ==
    LET eq == SkipSpaces(s, i + Len("var " \o name))
        p == SkipSpaces(s, eq + 1)
        q == LazyEnd(s, p)
    IN IF /\ StartsWithAt(s, i, "var " \o name)
          /\ Ch(s, eq) = "="
          /\ Ch(s, p) = "{"
          /\ q # 0
       THEN [ok |-> TRUE, group |-> SubSeq(s, p, q)]
       ELSE [ok |-> FALSE, group |-> ""]

\* re.search(pattern, html, re.DOTALL): the leftmost match
PatternSearch(s, name) ==
    LET hits == {i \in 1..Len(s) : PatternAt(s, name, i).ok}
    IN IF hits = {} THEN [ok |-> FALSE, group |-> ""]
       ELSE PatternAt(s, name, CHOOSE i \in hits : \A j \in hits : i <= j)

\* the depth update of one character of the fallback scan
DepthAfter(c, depth) ==
    IF c = "{" THEN depth + 1
    ELSE IF c = "}" THEN depth - 1
    ELSE depth

\* for i in range(start, len(html)): the position where depth returns to zero, or 0
RECURSIVE BraceScan(_, _, _)
BraceScan(s, i, depth) ==
    IF i > Len(s) THEN 0
    ELSE IF Ch(s, i) = "}" /\ DepthAfter(Ch(s, i), depth) = 0 THEN i
    ELSE BraceScan(s, i + 1, DepthAfter(Ch(s, i), depth))

FallbackScan(s, name) ==
    LET idx == Find(s, name, 1)
        start == IF idx = 0 THEN 0 ELSE Find(s, "{", idx)
        end == IF start = 0 THEN 0 ELSE BraceScan(s, start, 0)
        \* try: return json.loads(...) except: pass
        OrNone(loaded) == IF loaded = Raised THEN None ELSE loaded
    IN IF idx = 0 \/ start = 0 \/ end = 0 THEN None
       ELSE OrNone(json_loads(SubSeq(s, start, end)))

extract_json_from_html(s, name) ==
    LET \* try: return json.loads(m.group(1)) except: pass, then the fallback scan
        OrFallback(m, loaded) == IF m.ok /\ loaded # Raised THEN loaded ELSE FallbackScan(s, name)
        Matched(m) == OrFallback(m, json_loads(m.group))
    IN Matched(PatternSearch(s, name))
(***************************************************************************)
(* Python truth value and iteration of a JSON value.                       *)
(***************************************************************************)
\* bool(v): None, "", 0, [] and {} are false
Truthy(v) ==
    IF v.tag = "null" THEN FALSE
    ELSE IF v.tag = "str" THEN v.val # ""
    ELSE IF v.tag = "int" THEN v.val # 0
    ELSE Len(v.val) # 0

\* for x in v: a list of the elements of a list, the keys of a dict, the characters of
\* a str; Raised (TypeError) for None and for a number
Iterate(v) ==
    IF v.tag = "list" THEN v
    ELSE IF v.tag = "dict" THEN JList([n \in 1..Len(v.val) |-> JStr(v.val[n][1])])
    ELSE IF v.tag = "str" THEN JList([n \in 1..Len(v.val) |-> JStr(Ch(v.val, n))])
    ELSE Raised

(***************************************************************************)
(* parse_exact_count and parse_duration_text                               *)
(***************************************************************************)
\* re.sub(r"[^\d]", "", s)
RECURSIVE DigitsOnly(_)
DigitsOnly(s) ==
    IF s = "" THEN ""
    ELSE (IF IsDigit(Ch(s, 1)) THEN Ch(s, 1) ELSE "") \o DigitsOnly(SubSeq(s, 2, Len(s)))

\* str(n) for n >= 0
RECURSIVE IntToStr(_)
IntToStr(n) ==
    IF n < 10 THEN Ch("0123456789", n + 1)
    ELSE IntToStr(n \div 10) \o Ch("0123456789", (n % 10) + 1)

\* the digits of str(v): of the text itself, of a number, of the repr of a list or dict
RECURSIVE DigitsOfStr(_)
RECURSIVE DigitsOfAll(_, _)
DigitsOfAll(q, n) ==
    IF n > Len(q) THEN "" ELSE DigitsOfStr(q[n]) \o DigitsOfAll(q, n + 1)

DigitsOfStr(v) ==
    IF v.tag = "str" THEN DigitsOnly(v.val)
    ELSE IF v.tag = "int" THEN IntToStr(IF v.val < 0 THEN -v.val ELSE v.val)
    ELSE IF v.tag = "list" THEN DigitsOfAll(v.val, 1)
    ELSE IF v.tag = "dict"
         THEN DigitsOfAll([n \in 1..(2 * Len(v.val)) |->
                              IF n % 2 = 1 THEN JStr(v.val[(n + 1) \div 2][1])
                              ELSE v.val[n \div 2][2]], 1)
    ELSE ""

parse_exact_count(text) ==
    IF ~Truthy(text) THEN 0
    ELSE IF DigitsOfStr(text) # "" THEN IntOfDigits(DigitsOfStr(text))
    ELSE 0

\* s.split(sep) for a one-character separator
RECURSIVE Split(_, _)
Split(s, sep) ==
    LET cut == Find(s, sep, 1)
    IN IF cut = 0 THEN <<s>>
       ELSE <<SubSeq(s, 1, cut - 1)>> \o Split(SubSeq(s, cut + 1, Len(s)), sep)

\* p.isdigit()
AllDigits(p) == p # "" /\ \A n \in 1..Len(p) : IsDigit(Ch(p, n))

\* [int(p) for p in parts if p.isdigit()]
RECURSIVE IntParts(_)
IntParts(parts) ==
    IF parts = <<>> THEN <<>>
    ELSE (IF AllDigits(Head(parts)) THEN <<IntOfDigits(Head(parts))>> ELSE <<>>)
             \o IntParts(Tail(parts))

\* Raised (AttributeError on text.split) for a truthy value that is not a str
parse_duration_text(text) ==
    IF ~Truthy(text) THEN JInt(0)
    ELSE IF text.tag # "str" THEN Raised
    ELSE LET parts == IntParts(Split(text.val, ":"))
         IN IF Len(parts) = 3 THEN JInt(parts[1] * 3600 + parts[2] * 60 + parts[3])
            ELSE IF Len(parts) = 2 THEN JInt(parts[1] * 60 + parts[2])
            ELSE IF Len(parts) > 0 THEN JInt(parts[1])
            ELSE JInt(0)

(***************************************************************************)
(* The text of a JSON value, as json.dumps(v, separators=(",", ":")) writes *)
(* it: what a page embeds.                                                 *)
(***************************************************************************)
\* the text of a string literal: quotes and backslashes escaped
RECURSIVE Escaped(_)
Escaped(s) ==
    IF s = "" THEN ""
    ELSE (IF Ch(s, 1) \in {"\"", "\\"} THEN "\\" ELSE "") \o Ch(s, 1)
             \o Escaped(SubSeq(s, 2, Len(s)))

RECURSIVE Literal(_)
RECURSIVE LiteralMembers(_, _)
RECURSIVE LiteralElements(_, _)
LiteralMembers(items, n) ==
    IF n > Len(items) THEN ""
    ELSE (IF n > 1 THEN "," ELSE "")
             \o "\"" \o Escaped(items[n][1]) \o "\":" \o Literal(items[n][2])
             \o LiteralMembers(items, n + 1)

LiteralElements(elems, n) ==
    IF n > Len(elems) THEN ""
    ELSE (IF n > 1 THEN "," ELSE "") \o Literal(elems[n]) \o LiteralElements(elems, n + 1)

Literal(v) ==
    IF v.tag = "str" THEN "\"" \o Escaped(v.val) \o "\""
    ELSE IF v.tag = "int" THEN IntToStr(v.val)
    ELSE IF v.tag = "null" THEN "null"
    ELSE IF v.tag = "list" THEN "[" \o LiteralElements(v.val, 1) \o "]"
    ELSE "{" \o LiteralMembers(v.val, 1) \o "}"

(***************************************************************************)
(* Teacher mapping: detect_teacher_by_name, get_teacher,                   *)
(* extract_teacher_name_from_title                                         *)
(***************************************************************************)
UpperLetters == "ABCDEFGHIJKLMNOPQRSTUVWXYZ"
LowerLetters == "abcdefghijklmnopqrstuvwxyz"

LowerChar(c) ==
    IF c # "" /\ Find(UpperLetters, c, 1) # 0
    THEN Ch(LowerLetters, Find(UpperLetters, c, 1))
    ELSE c

\* s.lower()
RECURSIVE lower(_)
lower(s) ==
    IF s = "" THEN "" ELSE LowerChar(Ch(s, 1)) \o lower(SubSeq(s, 2, Len(s)))

\* the table in insertion order, the order dict.items() yields
TEACHER_MAP_DIRECT ==
    << <<"danish", "Danish Sir">>,
       <<"deepali", "Deepali Ma'am">>,
       <<"isha", "Isha Ma'am">>,
       <<"kuldeep", "Kuldeep Sir">>,
       <<"kajal", "Kajal Ma'am">>,
       <<"mona", "Mona Ma'am">>,
       <<"pawan", "Pawan Sir">>,
       <<"narjis", "Narjis Ma'am">>,
       <<"sachin", "Sachin Sir">>,
       <<"abha", "Abha Ma'am">>,
       <<"pooja", "Pooja Ma'am">> >>

\* for key, value in TEACHER_MAP_DIRECT.items(): if key in low: return value
RECURSIVE DirectScan(_, _)
DirectScan(low, n) ==
    IF n > Len(TEACHER_MAP_DIRECT) THEN "Unknown"
    ELSE IF Contains(low, TEACHER_MAP_DIRECT[n][1]) THEN TEACHER_MAP_DIRECT[n][2]
    ELSE DirectScan(low, n + 1)

IsLetter(c) == c # "" /\ (Contains(LowerLetters, c) \/ Contains(UpperLetters, c))

\* the end of the run of letters that starts at i
RECURSIVE LettersEnd(_, _)
LettersEnd(s, i) == IF IsLetter(Ch(s, i + 1)) THEN LettersEnd(s, i + 1) ELSE i

\* (sir|ma[\'a]?am) at p
HonorificAt(s, p) ==
    \/ StartsWithAt(s, p, "sir")
    \/ StartsWithAt(s, p, "maam")
    \/ StartsWithAt(s, p, "ma'am")
    \/ StartsWithAt(s, p, "maaam")

\* ([A-Za-z]+)\s+(sir|ma[\'a]?am) matching from i: the greedy run of letters, then
\* at least one space, then the honorific
NameTitleAt(s, i) ==
    /\ IsLetter(Ch(s, i))
    /\ SkipSpaces(s, LettersEnd(s, i) + 1) > LettersEnd(s, i) + 1
    /\ HonorificAt(s, SkipSpaces(s, LettersEnd(s, i) + 1))

\* m.group(1) of the leftmost match, "" when re.search finds none
NameBeforeTitle(low) ==
    LET hits == {i \in 1..Len(low) : NameTitleAt(low, i)}
        first == CHOOSE i \in hits : \A j \in hits : i <= j
    IN IF hits = {} THEN "" ELSE SubSeq(low, first, LettersEnd(low, first))

detect_teacher_by_name(text) ==
    IF text = "" THEN "Unknown"
    ELSE IF DirectScan(lower(text), 1) # "Unknown" THEN DirectScan(lower(text), 1)
    ELSE LET name == lower(NameBeforeTitle(lower(text)))
         IN IF \E n \in 1..Len(TEACHER_MAP_DIRECT) : TEACHER_MAP_DIRECT[n][1] = name
            THEN TEACHER_MAP_DIRECT[CHOOSE n \in 1..Len(TEACHER_MAP_DIRECT) :
                                        TEACHER_MAP_DIRECT[n][1] = name][2]
            ELSE "Unknown"

get_teacher(title) ==
    LET t == lower(title)
    IN IF Contains(t, " evs") \/ Contains(t, "environmental studies")
             \/ Contains(t, "environment studies")
       THEN "Mona Ma'am"
       ELSE IF Contains(t, "science") /\ ~Contains(t, "social") THEN "Kuldeep Sir"
       ELSE IF Contains(t, " hindi") THEN "Isha Ma'am"
       ELSE IF Contains(t, " english") THEN "Pooja Ma'am"
       ELSE IF Contains(t, " reasoning") \/ Contains(t, "logical")
                 \/ Contains(t, "mental ability")
            THEN "Kajal Ma'am"
       ELSE IF Contains(t, " computer") THEN "Kajal Ma'am"
       ELSE IF Contains(t, " maths") \/ Contains(t, " math ") \/ Contains(t, "mathematics")
                 \/ Contains(t, "numerical") \/ Contains(t, "quant")
            THEN "Pawan Sir"
       ELSE IF Contains(t, " cdp") \/ Contains(t, "child development") THEN "Danish Sir"
       ELSE IF Contains(t, " gk") \/ Contains(t, "general knowledge")
                 \/ Contains(t, "current affairs") \/ Contains(t, " gs")
            THEN "Danish Sir"
       ELSE IF Contains(t, " sst ") \/ Contains(t, "social science")
                 \/ Contains(t, "social studies")
            THEN "Danish Sir"
       ELSE "Unknown"

\* a cascade that consults the subject keywords first
subject_before_name(title) ==
    IF get_teacher(title) # "Unknown"
    THEN get_teacher(title)
    ELSE detect_teacher_by_name(title)

\* title or "" is the title: the titles of the model are strings
extract_teacher_name_from_title(title) ==
    IF detect_teacher_by_name(title) # "Unknown"
    THEN detect_teacher_by_name(title)
    ELSE get_teacher(title)

(***************************************************************************)
(* Calendar dates: date.toordinal, date.fromordinal, strftime              *)
(***************************************************************************)
IsLeap(y) == y % 4 = 0 /\ (y % 100 # 0 \/ y % 400 = 0)

DaysInMonth(y, m) ==
    IF m = 2 THEN (IF IsLeap(y) THEN 29 ELSE 28)
    ELSE IF m \in {4, 6, 9, 11} THEN 30
    ELSE 31

RECURSIVE DaysBeforeMonth(_, _)
DaysBeforeMonth(y, m) ==
    IF m <= 1 THEN 0 ELSE DaysBeforeMonth(y, m - 1) + DaysInMonth(y, m - 1)

DaysBeforeYear(y) ==
    (y - 1) * 365 + ((y - 1) \div 4) - ((y - 1) \div 100) + ((y - 1) \div 400)

\* date(y, m, d).toordinal(): 1 is 0001-01-01
ToOrdinal(y, m, d) == DaysBeforeYear(y) + DaysBeforeMonth(y, m) + d

\* date.fromordinal(n), n >= 1
FromOrdinal(n) ==
    LET n0 == n - 1
        n400 == n0 \div 146097
        r400 == n0 % 146097
        n100 == r400 \div 36524
        r100 == r400 % 36524
        n4 == r100 \div 1461
        r4 == r100 % 1461
        n1 == r4 \div 365
        r1 == r4 % 365
        year == n400 * 400 + 1 + n100 * 100 + n4 * 4 + n1
        month == CHOOSE m \in 1..12 :
                     /\ DaysBeforeMonth(year, m) <= r1
                     /\ r1 < DaysBeforeMonth(year, m) + DaysInMonth(year, m)
    IN IF n1 = 4 \/ n100 = 4
       THEN [y |-> year - 1, m |-> 12, d |-> 31]
       ELSE [y |-> year, m |-> month, d |-> r1 - DaysBeforeMonth(year, month) + 1]

Pad2(n) == IF n < 10 THEN "0" \o IntToStr(n) ELSE IntToStr(n)

\* strftime("%d-%m-%Y")
FormatYMD(y, m, d) == Pad2(d) \o "-" \o Pad2(m) \o "-" \o IntToStr(y)

\* strftime("%d-%m-%Y") of the date with ordinal n
FormatDate(n) == FormatYMD(FromOrdinal(n).y, FromOrdinal(n).m, FromOrdinal(n).d)

(***************************************************************************)
(* parse_relative_published                                                *)
(***************************************************************************)
\* (None, None)
Unresolved == [date |-> None, days |-> None]

\* re.search(r"(\d+)", t): the position of the first digit, 0 when there is none
FirstDigit(t) ==
    LET hits == {i \in 1..Len(t) : IsDigit(Ch(t, i))}
    IN IF hits = {} THEN 0 ELSE CHOOSE i \in hits : \A j \in hits : i <= j

\* the if / elif chain over the unit words
DaysOffset(t, n) ==
    IF Contains(t, "minute") \/ Contains(t, "min") \/ Contains(t, "hour") \/ Contains(t, "hr")
    THEN 0
    ELSE IF Contains(t, "day") THEN n
    ELSE IF Contains(t, "week") THEN n * 7
    ELSE IF Contains(t, "month") THEN n * 30
    ELSE IF Contains(t, "year") THEN n * 365
    ELSE n

\* text: a JSON value; today: date.today() as an ordinal.  Raised: AttributeError on
\* text.lower() for a truthy value that is not a str, OverflowError when today minus the
\* offset is before date.min
parse_relative_published(text, today) ==
    IF ~Truthy(text) THEN Unresolved
    ELSE IF text.tag # "str" THEN Raised
    ELSE LET t == lower(text.val)
             at == FirstDigit(t)
             n == IntOfDigits(SubSeq(t, at, DigitsEnd(t, at)))
         IN IF at = 0 THEN Unresolved
            ELSE IF today - DaysOffset(t, n) < 1 THEN Raised
            ELSE [date |-> JStr(FormatDate(today - DaysOffset(t, n))),
                  days |-> JInt(DaysOffset(t, n))]

(***************************************************************************)
(* is_scheduled_or_upcoming                                                *)
(***************************************************************************)
Key(s) == JStr(s)

\* (v or "").lower(): Raised (AttributeError) for a truthy value that is not a str
LowerOrEmpty(v) ==
    IF ~Truthy(v) THEN JStr("")
    ELSE IF v.tag = "str" THEN JStr(lower(v.val))
    ELSE Raised

\* one badge: "True" to return True, "False" to go on, "Raised"
BadgeVerdict(b) ==
    LET label == LowerOrEmpty(safe_get(b, <<Key("metadataBadgeRenderer"), Key("label")>>,
                                       JStr("")))
    IN IF label = Raised THEN "Raised"
       ELSE IF Contains(label.val, "upcoming") \/ Contains(label.val, "scheduled") THEN "True"
       ELSE "False"

\* one thumbnail overlay
OverlayVerdict(o) ==
    LET style == safe_get(o, <<Key("thumbnailOverlayTimeStatusRenderer"), Key("style")>>,
                          JStr(""))
        text_label == LowerOrEmpty(safe_get(o,
                          <<Key("thumbnailOverlayTimeStatusRenderer"), Key("text"),
                            Key("simpleText")>>, JStr("")))
    IN IF style.tag = "str" /\ Contains(lower(style.val), "upcoming") THEN "True"
       ELSE IF text_label = Raised THEN "Raised"
       ELSE IF Contains(text_label.val, "upcoming") \/ Contains(text_label.val, "scheduled")
            THEN "True"
       ELSE "False"

\* for b in badges: the first verdict that is not "False"
RECURSIVE BadgesScan(_, _)
BadgesScan(q, n) ==
    IF n > Len(q) THEN "False"
    ELSE IF BadgeVerdict(q[n]) # "False" THEN BadgeVerdict(q[n])
    ELSE BadgesScan(q, n + 1)

RECURSIVE OverlaysScan(_, _)
OverlaysScan(q, n) ==
    IF n > Len(q) THEN "False"
    ELSE IF OverlayVerdict(q[n]) # "False" THEN OverlayVerdict(q[n])
    ELSE OverlaysScan(q, n + 1)

\* a filter that does not look at the view counter
ViewCountIgnored(video) == "False"

\* vc_text = safe_get(...) or "": the view counter of a stream that has not begun
ViewCountVerdict(video) ==
    LET got == safe_get(video, <<Key("viewCountText"), Key("simpleText")>>, JStr(""))
        vc_text == IF Truthy(got) THEN got ELSE JStr("")
    IN IF vc_text.tag = "str"
          /\ (Contains(lower(vc_text.val), "waiting")
                 \/ Contains(lower(vc_text.val), "scheduled for"))
       THEN "True"
       ELSE "False"

\* "True", "False", or "Raised" when iterating or lowering a field raises
is_scheduled_or_upcoming(video) ==
    LET badges == safe_get(video, <<Key("badges")>>, JList(<<>>))
        overlays == safe_get(video, <<Key("thumbnailOverlays")>>, JList(<<>>))
    IN IF safe_get(video, <<Key("upcomingEventData")>>, None) # None THEN "True"
       ELSE IF Iterate(badges) = Raised THEN "Raised"
       ELSE IF BadgesScan(Iterate(badges).val, 1) # "False" THEN BadgesScan(Iterate(badges).val, 1)
       ELSE IF Iterate(overlays) = Raised THEN "Raised"
       ELSE IF OverlaysScan(Iterate(overlays).val, 1) # "False"
            THEN OverlaysScan(Iterate(overlays).val, 1)
       ELSE ViewCountVerdict(video)

(***************************************************************************)
(* fetch_channel_videos                                                    *)
(***************************************************************************)
\* for item in rich: vid = safe_get(item, ...); if vid: videos.append(vid)
RECURSIVE ItemVideos(_, _)
ItemVideos(rich, n) ==
    IF n > Len(rich) THEN <<>>
    ELSE LET vid == safe_get(rich[n], <<Key("richItemRenderer"), Key("content"),
                                        Key("videoRenderer")>>, None)
         IN (IF Truthy(vid) THEN <<vid>> ELSE <<>>) \o ItemVideos(rich, n + 1)

\* for tab in tab_data: the list of the videos of every tab in order, Raised when a
\* rich grid cannot be iterated
RECURSIVE TabVideos(_, _)
TabVideos(tab_data, n) ==
    IF n > Len(tab_data) THEN JList(<<>>)
    ELSE LET content == safe_get(tab_data[n], <<Key("tabRenderer"), Key("content")>>,
                                 JDict(<<>>))
             rich == safe_get(content, <<Key("richGridRenderer"), Key("contents")>>,
                              JList(<<>>))
             rest == TabVideos(tab_data, n + 1)
         IN IF Iterate(rich) = Raised THEN Raised
            ELSE IF rest = Raised THEN Raised
            ELSE JList(ItemVideos(Iterate(rich).val, 1) \o rest.val)

\* the videos one listing page yields: an empty list when the page is skipped, Raised
\* when reading it raises
PageVideos(text) ==
    LET OfTabs(tab_data) == IF Iterate(tab_data) = Raised THEN Raised
                            ELSE TabVideos(Iterate(tab_data).val, 1)
        OfData(yt_data) ==
            IF ~Truthy(yt_data) THEN JList(<<>>)
            ELSE OfTabs(safe_get(yt_data, <<Key("contents"), Key("twoColumnBrowseResultsRenderer"),
                                            Key("tabs")>>, JList(<<>>)))
    IN OfData(extract_json_from_html(text, "ytInitialData"))

\* for tab_url in tabs, from tab n on.  A response is what session.get gave back:
\* transport = TRUE when it raised (timeout, connection error), else a status and a text
RECURSIVE TryTabs(_, _)
TryTabs(responses, n) ==
    IF n > Len(responses) THEN JList(<<>>)
    ELSE IF responses[n].transport THEN Raised
    ELSE IF responses[n].status_code # 200 THEN TryTabs(responses, n + 1)
    ELSE LET \* if videos: break
             OrNextTab(found) == IF found = Raised THEN Raised
                                 ELSE IF Truthy(found) THEN found
                                 ELSE TryTabs(responses, n + 1)
         IN OrNextTab(PageVideos(responses[n].text))

\* responses: what /streams, /videos and the channel root answer, in that order
fetch_channel_videos(responses) == TryTabs(responses, 1)

(***************************************************************************)
(* extract_video_details                                                   *)
(***************************************************************************)
\* re.search(r'"uploadDate":\s*"([^"]+)"', html): group 1 of the leftmost match, or ""
UploadDateAt(s, i) ==
    LET p == SkipSpaces(s, i + Len("\"uploadDate\":"))
        q == Find(s, "\"", p + 1)
    IN IF /\ StartsWithAt(s, i, "\"uploadDate\":")
          /\ Ch(s, p) = "\""
          /\ q > p + 1
       THEN SubSeq(s, p + 1, q - 1)
       ELSE ""

UploadDateMatch(s) ==
    LET hits == {i \in 1..Len(s) : UploadDateAt(s, i) # ""}
    IN IF hits = {} THEN "" ELSE UploadDateAt(s, CHOOSE i \in hits : \A j \in hits : i <= j)

\* raw.replace("Z", "+00:00")
RECURSIVE ReplaceZ(_)
ReplaceZ(s) ==
    IF s = "" THEN ""
    ELSE (IF Ch(s, 1) = "Z" THEN "+00:00" ELSE Ch(s, 1)) \o ReplaceZ(SubSeq(s, 2, Len(s)))

NoDate == [ok |-> FALSE, y |-> 0, m |-> 0, d |-> 0, time |-> ""]

\* YYYY-MM-DD naming a day of the calendar
IsDateText(s) ==
    /\ Len(s) = 10
    /\ AllDigits(SubSeq(s, 1, 4)) /\ Ch(s, 5) = "-"
    /\ AllDigits(SubSeq(s, 6, 7)) /\ Ch(s, 8) = "-"
    /\ AllDigits(SubSeq(s, 9, 10))
    /\ IntOfDigits(SubSeq(s, 1, 4)) >= 1
    /\ IntOfDigits(SubSeq(s, 6, 7)) \in 1..12
    /\ IntOfDigits(SubSeq(s, 9, 10)) >= 1
    /\ IntOfDigits(SubSeq(s, 9, 10))
           <= DaysInMonth(IntOfDigits(SubSeq(s, 1, 4)), IntOfDigits(SubSeq(s, 6, 7)))

DateOf(s, time) ==
    [ok |-> TRUE, y |-> IntOfDigits(SubSeq(s, 1, 4)), m |-> IntOfDigits(SubSeq(s, 6, 7)),
     d |-> IntOfDigits(SubSeq(s, 9, 10)), time |-> time]

\* HH:MM:SS
IsTimeText(s) ==
    /\ Len(s) = 8
    /\ AllDigits(SubSeq(s, 1, 2)) /\ Ch(s, 3) = ":"
    /\ AllDigits(SubSeq(s, 4, 5)) /\ Ch(s, 6) = ":"
    /\ AllDigits(SubSeq(s, 7, 8))
    /\ IntOfDigits(SubSeq(s, 1, 2)) < 24
    /\ IntOfDigits(SubSeq(s, 4, 5)) < 60
    /\ IntOfDigits(SubSeq(s, 7, 8)) < 60

\* +HH:MM or -HH:MM
IsOffsetText(s) ==
    /\ Len(s) = 6
    /\ Ch(s, 1) \in {"+", "-"}
    /\ AllDigits(SubSeq(s, 2, 3)) /\ Ch(s, 4) = ":" /\ AllDigits(SubSeq(s, 5, 6))
    /\ IntOfDigits(SubSeq(s, 2, 3)) < 24
    /\ IntOfDigits(SubSeq(s, 5, 6)) < 60

\* datetime.fromisoformat(iso) when "T" in iso, else datetime.strptime(iso, "%Y-%m-%d");
\* ok = FALSE when it raises ValueError
ParseUploadDate(raw) ==
    LET iso == ReplaceZ(raw)
    IN IF Contains(iso, "T")
       THEN IF /\ IsDateText(SubSeq(iso, 1, 10))
               /\ Ch(iso, 11) = "T"
               /\ IsTimeText(SubSeq(iso, 12, 19))
               /\ (Len(iso) = 19 \/ IsOffsetText(SubSeq(iso, 20, Len(iso))))
            THEN DateOf(SubSeq(iso, 1, 10), SubSeq(iso, 12, 19))
            ELSE NoDate
       ELSE IF IsDateText(iso)
            THEN DateOf(iso, "00:00:00")
            ELSE NoDate

\* the page the date logic reads: driver.page_source, r.text, or "" after an error
WatchHtml(watch) == IF watch.ok THEN watch.html ELSE ""

\* the counters: read from the DOM with a driver that did not fail, else 0
WatchLikes(watch) == IF watch.driver /\ watch.ok THEN watch.likes ELSE 0
WatchComments(watch) == IF watch.driver /\ watch.ok THEN watch.comments ELSE 0

\* watch: the outcome of loading the watch page; approx: approx_published_text;
\* today: date.today() as an ordinal; now: datetime.now(timezone.utc) as date and time
extract_video_details(watch, approx, today, now) ==
    LET page == WatchHtml(watch)
        upload == IF page # "" /\ UploadDateMatch(page) # ""
                  THEN ParseUploadDate(UploadDateMatch(page))
                  ELSE NoDate
        approx_parse == IF ~upload.ok /\ Truthy(approx)
                        THEN parse_relative_published(approx, today)
                        ELSE Unresolved
    IN IF approx_parse = Raised THEN Raised
       ELSE IF upload.ok
            THEN [likes |-> WatchLikes(watch), comments |-> WatchComments(watch),
                  published_at |-> FormatYMD(upload.y, upload.m, upload.d),
                  published_time |-> upload.time,
                  days |-> JInt(today - ToOrdinal(upload.y, upload.m, upload.d))]
       ELSE IF approx_parse.date # None
            THEN [likes |-> WatchLikes(watch), comments |-> WatchComments(watch),
                  published_at |-> approx_parse.date.val,
                  published_time |-> "00:00:00",
                  days |-> approx_parse.days]
       ELSE [likes |-> WatchLikes(watch), comments |-> WatchComments(watch),
             published_at |-> FormatDate(now.ordinal),
             published_time |-> now.time,
             days |-> JInt(0)]

(***************************************************************************)
(* main: one pass of the loop over videos_data                             *)
(***************************************************************************)
TARGET_LIVESTREAMS == 20

\* r.get("text", "") for one run of the title: Raised when r is no dict (AttributeError)
\* or the text is no str (TypeError in "".join)
RunText(r) ==
    IF r.tag # "dict" THEN Raised
    ELSE IF DictGet(r, Key("text"), JStr("")).tag # "str" THEN Raised
    ELSE DictGet(r, Key("text"), JStr(""))

RECURSIVE JoinRuns(_, _)
JoinRuns(runs, n) ==
    IF n > Len(runs) THEN JStr("")
    ELSE IF RunText(runs[n]) = Raised THEN Raised
    ELSE IF JoinRuns(runs, n + 1) = Raised THEN Raised
    ELSE JStr(RunText(runs[n]).val \o JoinRuns(runs, n + 1).val)

\* "".join([r.get("text", "") for r in title_runs])
TitleOf(video) ==
    LET title_runs == safe_get(video, <<Key("title"), Key("runs")>>, JList(<<>>))
    IN IF Iterate(title_runs) = Raised THEN Raised
       ELSE JoinRuns(Iterate(title_runs).val, 1)

\* repr(v), for strings that hold no quote and no backslash
RECURSIVE Repr(_)
RECURSIVE ReprItems(_, _, _)
ReprItems(q, n, keyed) ==
    IF n > Len(q) THEN ""
    ELSE (IF n > 1 THEN ", " ELSE "")
             \o (IF keyed THEN "'" \o q[n][1] \o "': " \o Repr(q[n][2]) ELSE Repr(q[n]))
             \o ReprItems(q, n + 1, keyed)

Repr(v) ==
    IF v.tag = "null" THEN "None"
    ELSE IF v.tag = "str" THEN "'" \o v.val \o "'"
    ELSE IF v.tag = "int" THEN (IF v.val < 0 THEN "-" \o IntToStr(-v.val) ELSE IntToStr(v.val))
    ELSE IF v.tag = "list" THEN "[" \o ReprItems(v.val, 1, FALSE) \o "]"
    ELSE "{" \o ReprItems(v.val, 1, TRUE) \o "}"

\* the text an f-string writes for a video id: str(v)
StrOf(v) == IF v.tag = "str" THEN v.val ELSE Repr(v)

\* the events of one pass, in the order the code performs them
Classified(i) == <<"is_scheduled_or_upcoming", i>>
Detailed(i) == <<"extract_video_details", i>>
Appended(i) == <<"append", i>>

NoRow == [video_id |-> None]

Outcome(kind, at, events, row) == [kind |-> kind, at |-> at, events |-> events, row |-> row]

\* a loop test that lets one record more through
TargetExceeded(count) == count > TARGET_LIVESTREAMS

\* if len(livestream_data) >= TARGET_LIVESTREAMS: break
TargetReached(count) == count >= TARGET_LIVESTREAMS

\* the body of  for video in videos_data  for the tile at position i, with count
\* records assembled so far: what the pass does ("break", "continue", "append" or
\* "raise" and where), the calls it makes, and the record it appends
main_iteration(video, i, count, watch, today, now) ==
    LET video_id == safe_get(video, <<Key("videoId")>>, None)
        title == TitleOf(video)
        view_text == safe_get(video, <<Key("viewCountText"), Key("simpleText")>>, JStr(""))
        len_text == safe_get(video, <<Key("lengthText"), Key("simpleText")>>, JStr(""))
        duration_sec == parse_duration_text(len_text)
        published_tile_text ==
            safe_get(video, <<Key("publishedTimeText"), Key("simpleText")>>, JStr(""))
        video_url == "https://www.youtube.com/watch?v=" \o StrOf(video_id)
        details == extract_video_details(watch, published_tile_text, today, now)
    IN IF TargetReached(count) THEN Outcome("break", "", <<>>, NoRow)
       ELSE IF is_scheduled_or_upcoming(video) = "Raised"
            THEN Outcome("raise", "is_scheduled_or_upcoming", <<Classified(i)>>, NoRow)
       ELSE IF is_scheduled_or_upcoming(video) = "True"
            THEN Outcome("continue", "", <<Classified(i)>>, NoRow)
       ELSE IF ~Truthy(video_id) THEN Outcome("continue", "", <<Classified(i)>>, NoRow)
       ELSE IF title = Raised THEN Outcome("raise", "title", <<Classified(i)>>, NoRow)
       ELSE IF duration_sec = Raised
            THEN Outcome("raise", "parse_duration_text", <<Classified(i)>>, NoRow)
       ELSE IF details = Raised
            THEN Outcome("raise", "extract_video_details",
                         <<Classified(i), Detailed(i)>>, NoRow)
       ELSE Outcome("append", "", <<Classified(i), Detailed(i), Appended(i)>>,
                    [video_id |-> video_id,
                     title |-> title.val,
                     teacher_name |-> extract_teacher_name_from_title(title.val),
                     live_status |-> "was_live",
                     published_at |-> details.published_at,
                     published_time |-> details.published_time,
                     days_since_published |->
                         IF details.days # None THEN details.days ELSE JStr(""),
                     views |-> parse_exact_count(view_text),
                     likes |-> details.likes,
                     comments |-> details.comments,
                     duration_seconds |-> duration_sec.val,
                     url |-> video_url])

(***************************************************************************)
(* The arguments the specifications draw from.                             *)
(***************************************************************************)
Obj(k, v) == JDict(<< <<k, v>> >>)

RECURSIVE StringsUpTo(_, _)
StringsUpTo(alphabet, n) ==
    IF n = 0 THEN {""}
    ELSE StringsUpTo(alphabet, n - 1)
             \cup {s \o c : s \in StringsUpTo(alphabet, n - 1), c \in alphabet}

\* pages: an object literal assigned to ytInitialData inside script text
StringValues == StringsUpTo({"t", "{", "}", "\"", ";"}, MaxStrLen)

PageObjects ==
    {Obj("a", JStr(s)) : s \in StringValues}
        \cup {Obj("a", Obj("b", JStr(s))) : s \in StringValues}

PagePrefixes ==
    {"<script>var ytInitialData = ", "<script>var ytInitialData=",
     "<script>window[\"ytInitialData\"] = "}

PageSuffixes == {";</script>", "</script>", ";var ytcfg = {};</script>"}

\* structures, paths and defaults for safe_get
Scalars == {None, JStr("x"), JInt(7)}

ShallowValues ==
    Scalars
        \cup {JList(<<>>)} \cup {JList(<<v>>) : v \in Scalars}
        \cup {JList(<<v, w>>) : v, w \in Scalars}
        \cup {JDict(<<>>)} \cup {Obj("a", v) : v \in Scalars}

Structures ==
    ShallowValues
        \cup {Obj("a", v) : v \in ShallowValues}
        \cup {JDict(<< <<"a", JStr("x")>>, <<"b", v>> >>) : v \in ShallowValues}
        \cup {JList(<<v>>) : v \in ShallowValues}
        \cup {JList(<<JInt(7), v>>) : v \in ShallowValues}

PathKeys == {JStr("a"), JStr("b"), JInt(0), JInt(1), JInt(2), JInt(-1), JInt(-3)}

RECURSIVE PathsUpTo(_)
PathsUpTo(n) ==
    IF n = 0 THEN {<<>>}
    ELSE PathsUpTo(n - 1) \cup {Append(p, k) : p \in PathsUpTo(n - 1), k \in PathKeys}

Defaults == {None, JStr(""), JList(<<>>), Obj("b", JStr("fallback"))}

\* titles: up to MaxTitleWords words of a vocabulary
TitleWords ==
    {"Hindi", " Hindi", " Class", "Danish", " Isha", " sir", "Science", " Social",
     " | ", "Pooja"}

Titles == StringsUpTo(TitleWords, MaxTitleWords)

\* relative publish texts: [Streamed ]<n>< unit>[ ago]
CountTexts == {""} \cup {IntToStr(n) : n \in 0..MaxCount} \cup {"14", "3000"}

UnitTexts ==
    {"", " minute", " minutes", " hour", " hours", " day", " days", " week", " weeks",
     " month", " months", " year", " years", " mins", " foo"}

RelativeTexts ==
    {pre \o n \o u \o post :
        pre \in {"", "Streamed "}, n \in CountTexts, u \in UnitTexts, post \in {"", " ago"}}

Todays == {ToOrdinal(2026, 11, 5), ToOrdinal(2024, 2, 29)}

\* watch pages
UploadDates ==
    {"2025-02-10T15:30:00Z", "2025-02-10", "2025-02-30", "2024-02-29T23:59:59+05:30",
     "soon", "2027-01-01"}

DetailPages ==
    {"", "<html><body>no date here</body></html>"}
        \cup {"<script>{\"uploadDate\":\"" \o raw \o "\"}</script>" : raw \in UploadDates}
        \cup {"<script>{\"uploadDate\": \"2025-02-10\",\"uploadDate\":\"soon\"}</script>"}

WatchOutcomes ==
    {[driver |-> dr, ok |-> FALSE, html |-> "", likes |-> 0, comments |-> 0] :
        dr \in BOOLEAN}
        \cup {[driver |-> FALSE, ok |-> TRUE, html |-> h, likes |-> 0, comments |-> 0] :
                 h \in DetailPages}
        \cup {[driver |-> TRUE, ok |-> TRUE, html |-> h, likes |-> l, comments |-> 3] :
                 h \in DetailPages, l \in {0, 12}}

ApproxTexts ==
    {None, JStr(""), JStr("Streamed 2 weeks ago"), JStr("5 hours ago"), JStr("LIVE"),
     JStr("3 months ago"), JStr("3000 years ago")}

\* listing pages and the answers of the listing URLs
Tile(id) == Obj("videoId", JStr(id))

ListingData(tiles) ==
    Obj("contents", Obj("twoColumnBrowseResultsRenderer", Obj("tabs",
        JList(<<Obj("tabRenderer", Obj("content", Obj("richGridRenderer", Obj("contents",
            JList([n \in 1..Len(tiles) |->
                      Obj("richItemRenderer", Obj("content",
                          Obj("videoRenderer", tiles[n])))])))))>>))))

ListingPage(tiles) ==
    "<script>var ytInitialData = " \o Literal(ListingData(tiles)) \o ";</script>"

\* tiles: the tiles the page was written from, for the claims to refer to
Answer(transport, status, text, tiles) ==
    [transport |-> transport, status_code |-> status, text |-> text, tiles |-> tiles]

Answers ==
    {Answer(TRUE, 0, "", <<>>),
     Answer(FALSE, 404, "Not Found", <<>>),
     Answer(FALSE, 503, ListingPage(<<Tile("e1")>>), <<>>),
     Answer(FALSE, 200, "<html>consent</html>", <<>>),
     Answer(FALSE, 200, ListingPage(<<>>), <<>>),
     Answer(FALSE, 200, ListingPage(<<Tile("s1")>>), <<Tile("s1")>>),
     Answer(FALSE, 200, ListingPage(<<Tile("v1"), Tile("v2")>>), <<Tile("v1"), Tile("v2")>>)}

\* listing tiles for main
Text(s) == Obj("simpleText", JStr(s))

Runs(parts) == Obj("runs", JList([n \in 1..Len(parts) |-> Obj("text", JStr(parts[n]))]))

Fields(id, extra) == JDict(<< <<"videoId", JStr(id)>> >> \o extra)

OrdinaryTile ==
    Fields("f", << <<"title", Runs(<<"Maths Live | ", "Pawan Sir">>)>>,
                   <<"viewCountText", Text("2,500 views")>>,
                   <<"lengthText", Text("45:00")>>,
                   <<"publishedTimeText", Text("Streamed 2 weeks ago")>> >>)

\* tiles is_scheduled_or_upcoming returns True for, one per signal
UpcomingTiles ==
    {Fields("u1", << <<"upcomingEventData", Obj("startTime", JStr("1767000000"))>> >>),
     Fields("u2", << <<"badges", JList(<<Obj("metadataBadgeRenderer",
                                            Obj("label", JStr("UPCOMING")))>>)>> >>),
     Fields("u3", << <<"thumbnailOverlays",
                       JList(<<Obj("thumbnailOverlayTimeStatusRenderer",
                                   Obj("text", Text("Scheduled")))>>)>> >>),
     Fields("u4", << <<"viewCountText", Text("12 waiting")>> >>)}

\* tiles with fields absent, null or of another shape
OddTiles ==
    {Fields("a1", <<>>),
     JDict(<< <<"title", Runs(<<"Hindi Class">>)>> >>),
     Fields("n1", << <<"upcomingEventData", None>>, <<"viewCountText", None>>,
                     <<"title", None>>, <<"lengthText", None>>,
                     <<"publishedTimeText", None>> >>),
     Fields("s1", << <<"badges", JStr("live")>>, <<"thumbnailOverlays", Obj("a", JStr("b"))>>,
                     <<"viewCountText", JInt(5)>>, <<"title", Obj("runs", JList(<<>>))>>,
                     <<"lengthText", JList(<<JStr("45:00")>>)>> >>),
     Fields("b1", << <<"badges", None>> >>),
     Fields("b2", << <<"badges", JList(<<Obj("metadataBadgeRenderer",
                                            Obj("label", JInt(5)))>>)>> >>),
     Fields("t1", << <<"title", Obj("runs", JList(<<JStr("Hindi Class")>>))>> >>),
     Fields("l1", << <<"lengthText", Obj("simpleText", JInt(2700))>> >>),
     Fields("p1", << <<"publishedTimeText", Text("3000 years ago")>> >>)}

HeadTiles == UpcomingTiles \cup OddTiles \cup {OrdinaryTile}

Ordinary(n) == [k \in 1..n |-> OrdinaryTile]

\* a listing: none or one tile of any kind, a run of ordinary tiles (none, or from one
\* short of the target to MaxOver more than it), and at most one tile after it
Listings ==
    {head \o Ordinary(n) \o tail :
        head \in {<<>>} \cup {<<v>> : v \in HeadTiles},
        n \in {0} \cup ((TARGET_LIVESTREAMS - 1)..(TARGET_LIVESTREAMS + MaxOver)),
        tail \in {<<>>,
                  <<Fields("u4", << <<"viewCountText", Text("12 waiting")>> >>)>>,
                  <<Fields("b1", << <<"badges", None>> >>)>>}}

MainWatches ==
    {[driver |-> FALSE, ok |-> FALSE, html |-> "", likes |-> 0, comments |-> 0],
     [driver |-> TRUE, ok |-> TRUE,
      html |-> "<script>{\"uploadDate\":\"2025-02-10T15:30:00Z\"}</script>",
      likes |-> 12, comments |-> 3]}

(***************************************************************************)
(* Initial states.                                                         *)
(***************************************************************************)
Idle_ej ==
    /\ page_obj = JDict(<<>>)
    /\ html = ""
    /\ ej_ret = None
    /\ ej_pc = "idle"

Idle_sg ==
    /\ sg_d = None
    /\ sg_keys = <<>>
    /\ sg_default = None
    /\ sg_ret = None
    /\ sg_pc = "idle"

Idle_tn ==
    /\ tn_title = ""
    /\ teacher_name = ""
    /\ tn_pc = "idle"

Idle_rel ==
    /\ rel_text = None
    /\ rel_today = 1
    /\ rel_ret = Unresolved
    /\ rel_pc = "idle"

Idle_evd ==
    /\ evd_watch = [driver |-> FALSE, ok |-> FALSE, html |-> "", likes |-> 0, comments |-> 0]
    /\ evd_approx = None
    /\ evd_today = 1
    /\ evd_now = [ordinal |-> 1, time |-> "00:00:00"]
    /\ evd_ret = Raised
    /\ evd_pc = "idle"

Idle_fc ==
    /\ fc_responses = <<>>
    /\ videos = JList(<<>>)
    /\ total = 0
    /\ fc_pc = "idle"

Idle_main ==
    /\ videos_data = <<>>
    /\ video_index = 1
    /\ livestream_data = <<>>
    /\ calls = <<>>
    /\ raised_at = ""
    /\ main_pc = "idle"
    /\ main_watch = [driver |-> FALSE, ok |-> FALSE, html |-> "", likes |-> 0, comments |-> 0]
    /\ main_today = 1
    /\ main_now = [ordinal |-> 1, time |-> "00:00:00"]

\* the arguments of one function drawn, the other functions idle
Init_ej ==
    /\ page_obj \in PageObjects
    /\ \E pre \in PagePrefixes, post \in PageSuffixes :
           html = pre \o Literal(page_obj) \o post
    /\ ej_ret = None
    /\ ej_pc = "call"
    /\ Idle_sg /\ Idle_tn /\ Idle_rel /\ Idle_evd /\ Idle_fc /\ Idle_main

Init_sg ==
    /\ sg_d \in Structures
    /\ sg_keys \in PathsUpTo(MaxPath)
    /\ sg_default \in Defaults
    /\ sg_ret = None
    /\ sg_pc = "call"
    /\ Idle_ej /\ Idle_tn /\ Idle_rel /\ Idle_evd /\ Idle_fc /\ Idle_main

Init_tn ==
    /\ tn_title \in Titles
    /\ teacher_name = ""
    /\ tn_pc = "call"
    /\ Idle_ej /\ Idle_sg /\ Idle_rel /\ Idle_evd /\ Idle_fc /\ Idle_main

Init_rel ==
    /\ rel_text \in {None} \cup {JStr(t) : t \in RelativeTexts}
    /\ rel_today \in Todays
    /\ rel_ret = Unresolved
    /\ rel_pc = "call"
    /\ Idle_ej /\ Idle_sg /\ Idle_tn /\ Idle_evd /\ Idle_fc /\ Idle_main

Init_evd ==
    /\ evd_watch \in WatchOutcomes
    /\ evd_approx \in ApproxTexts
    /\ evd_today \in Todays
    /\ \E ahead \in {0, 1}, clock \in {"00:30:00", "18:45:10"} :
           evd_now = [ordinal |-> evd_today + ahead, time |-> clock]
    /\ evd_ret = Raised
    /\ evd_pc = "call"
    /\ Idle_ej /\ Idle_sg /\ Idle_tn /\ Idle_rel /\ Idle_fc /\ Idle_main

Init_fc ==
    /\ fc_responses \in [1..3 -> Answers]
    /\ videos = JList(<<>>)
    /\ total = 0
    /\ fc_pc = "call"
    /\ Idle_ej /\ Idle_sg /\ Idle_tn /\ Idle_rel /\ Idle_evd /\ Idle_main

Init_main ==
    /\ videos_data \in Listings
    /\ video_index = 1
    /\ livestream_data = <<>>
    /\ calls = <<>>
    /\ raised_at = ""
    /\ main_pc = "loop"
    /\ main_watch \in MainWatches
    /\ main_today = ToOrdinal(2026, 11, 5)
    /\ main_now = [ordinal |-> ToOrdinal(2026, 11, 5), time |-> "04:15:00"]
    /\ Idle_ej /\ Idle_sg /\ Idle_tn /\ Idle_rel /\ Idle_evd /\ Idle_fc

(***************************************************************************)
(* Actions.                                                                *)
(***************************************************************************)
ExtractJson ==
    /\ ej_pc = "call"
    /\ ej_ret' = extract_json_from_html(html, "ytInitialData")
    /\ ej_pc' = "returned"
    /\ UNCHANGED <<html, page_obj>>
    /\ UNCHANGED <<sg_vars, tn_vars, rel_vars, evd_vars, fc_vars, main_vars>>

SafeGet ==
    /\ sg_pc = "call"
    /\ sg_ret' = safe_get(sg_d, sg_keys, sg_default)
    /\ sg_pc' = IF safe_get(sg_d, sg_keys, sg_default) = Raised THEN "raised" ELSE "returned"
    /\ UNCHANGED <<sg_d, sg_keys, sg_default>>
    /\ UNCHANGED <<ej_vars, tn_vars, rel_vars, evd_vars, fc_vars, main_vars>>

ExtractTeacherName ==
    /\ tn_pc = "call"
    /\ teacher_name' = extract_teacher_name_from_title(tn_title)
    /\ tn_pc' = "returned"
    /\ UNCHANGED tn_title
    /\ UNCHANGED <<ej_vars, sg_vars, rel_vars, evd_vars, fc_vars, main_vars>>

ParseRelativePublished ==
    /\ rel_pc = "call"
    /\ rel_ret' = parse_relative_published(rel_text, rel_today)
    /\ rel_pc' = IF parse_relative_published(rel_text, rel_today) = Raised
                 THEN "raised" ELSE "returned"
    /\ UNCHANGED <<rel_text, rel_today>>
    /\ UNCHANGED <<ej_vars, sg_vars, tn_vars, evd_vars, fc_vars, main_vars>>

ExtractVideoDetails ==
    /\ evd_pc = "call"
    /\ evd_ret' = extract_video_details(evd_watch, evd_approx, evd_today, evd_now)
    /\ evd_pc' = IF extract_video_details(evd_watch, evd_approx, evd_today, evd_now) = Raised
                 THEN "raised" ELSE "returned"
    /\ UNCHANGED <<evd_watch, evd_approx, evd_today, evd_now>>
    /\ UNCHANGED <<ej_vars, sg_vars, tn_vars, rel_vars, fc_vars, main_vars>>

\* main, line 432: videos_data = fetch_channel_videos(CHANNEL_URL)
FetchChannelVideos ==
    /\ fc_pc = "call"
    /\ videos' = fetch_channel_videos(fc_responses)
    /\ fc_pc' = IF fetch_channel_videos(fc_responses) = Raised THEN "raised" ELSE "returned"
    /\ UNCHANGED <<fc_responses, total>>
    /\ UNCHANGED <<ej_vars, sg_vars, tn_vars, rel_vars, evd_vars, main_vars>>

\* main, line 433: the total it prints
ReportTotal ==
    /\ fc_pc = "returned"
    /\ total' = Len(videos.val)
    /\ fc_pc' = "reported"
    /\ UNCHANGED <<fc_responses, videos>>
    /\ UNCHANGED <<ej_vars, sg_vars, tn_vars, rel_vars, evd_vars, main_vars>>

\* one pass of  for video in videos_data
MainIteration ==
    /\ main_pc = "loop"
    /\ video_index <= Len(videos_data)
    /\ \E out \in {main_iteration(videos_data[video_index], video_index, Len(livestream_data),
                                  main_watch, main_today, main_now)} :
          /\ calls' = calls \o out.events
          /\ livestream_data' = IF out.kind = "append"
                                THEN Append(livestream_data, out.row)
                                ELSE livestream_data
          /\ video_index' = IF out.kind \in {"continue", "append"} THEN video_index + 1 ELSE video_index
          /\ raised_at' = out.at
          /\ main_pc' = IF out.kind = "break" THEN "done"
                        ELSE IF out.kind = "raise" THEN "raised"
                        ELSE "loop"
    /\ UNCHANGED <<videos_data, main_watch, main_today, main_now>>
    /\ UNCHANGED <<ej_vars, sg_vars, tn_vars, rel_vars, evd_vars, fc_vars>>

\* the loop runs out of tiles
MainLoopEnd ==
    /\ main_pc = "loop"
    /\ video_index > Len(videos_data)
    /\ main_pc' = "done"
    /\ UNCHANGED <<videos_data, video_index, livestream_data, calls, raised_at, main_watch, main_today, main_now>>
    /\ UNCHANGED <<ej_vars, sg_vars, tn_vars, rel_vars, evd_vars, fc_vars>>

(***************************************************************************)
(* Specifications.                                                         *)
(***************************************************************************)
Init ==
    \/ Init_ej
    \/ Init_sg
    \/ Init_tn
    \/ Init_rel
    \/ Init_evd
    \/ Init_fc
    \/ Init_main

Next ==
    \/ ExtractJson
    \/ SafeGet
    \/ ExtractTeacherName
    \/ ParseRelativePublished
    \/ ExtractVideoDetails
    \/ FetchChannelVideos
    \/ ReportTotal
    \/ MainIteration
    \/ MainLoopEnd

Spec == Init /\ [][Next]_vars

SpecExtract ==
    /\ Init_ej
    /\ [][ExtractJson]_vars

SpecSafeGet ==
    /\ Init_sg
    /\ [][SafeGet]_vars

SpecTeacher ==
    /\ Init_tn
    /\ [][ExtractTeacherName]_vars

SpecRelative ==
    /\ Init_rel
    /\ [][ParseRelativePublished]_vars

SpecDetails ==
    /\ Init_evd
    /\ [][ExtractVideoDetails]_vars

SpecFetch ==
    /\ Init_fc
    /\ [][FetchChannelVideos \/ ReportTotal]_vars

SpecMain ==
    /\ Init_main
    /\ [][MainIteration \/ MainLoopEnd]_vars

(***************************************************************************)
(* Claims.                                                                 *)
(***************************************************************************)
\* whether a string value of the object holds a brace or a quote
RECURSIVE HasOpaqueChar(_)
HasOpaqueChar(v) ==
    IF v.tag = "str"
    THEN Contains(v.val, "{") \/ Contains(v.val, "}") \/ Contains(v.val, "\"")
    ELSE \E n \in 1..Len(v.val) : HasOpaqueChar(v.val[n][2])

\* C1: whenever the literal assigned to ytInitialData has a brace or an escaped
\* quote inside a string value, extract_json_from_html returns the structure
\* obtained by parsing the whole literal.
C1_StringBracesOpaque ==
    (ej_pc = "returned" /\ HasOpaqueChar(page_obj)) => ej_ret = page_obj

\* the value a path leads to in a structure, or Missing when a step has nothing to
\* follow: a string key present in a mapping, an index inside a sequence
Missing == [tag |-> "missing", val |-> 0]

RECURSIVE Reached(_, _)
Reached(d, keys) ==
    IF keys = <<>> THEN d
    ELSE IF d.tag = "dict" /\ Head(keys).tag = "str" /\ HasKey(d, Head(keys).val)
         THEN Reached(DictGet(d, Head(keys), Missing), Tail(keys))
    ELSE IF d.tag = "list" /\ Head(keys).tag = "int"
            /\ Head(keys).val >= -Len(d.val) /\ Head(keys).val < Len(d.val)
         THEN Reached(ListItem(d, Head(keys).val), Tail(keys))
    ELSE Missing

\* C2: safe_get never raises, and returns the value reached by following the whole
\* path or, as soon as one step misses, exactly the supplied default.
C2_NavigatorNeverRaises ==
    sg_pc # "call" =>
        /\ sg_pc = "returned"
        /\ sg_ret = IF Reached(sg_d, sg_keys) = Missing
                    THEN sg_default
                    ELSE Reached(sg_d, sg_keys)

\* whether tier 1 resolves: the page holds an uploadDate that parses
UploadResolves(w) ==
    /\ WatchHtml(w) # ""
    /\ UploadDateMatch(WatchHtml(w)) # ""
    /\ ParseUploadDate(UploadDateMatch(WatchHtml(w))).ok

\* whether the tile's approximate text is of the kind tier 2 resolves: it names a count
ApproxResolves(a) == Truthy(a) /\ a.tag = "str" /\ FirstDigit(a.val) # 0

\* C3: extract_video_details resolves the publish time by the first of three tiers
\* that applies (uploadDate, the tile's relative text, the current timestamp with
\* offset 0), and on every path returns a non-empty date and a defined offset.
C3_ThreeTierPublishTime ==
    evd_pc # "call" =>
        /\ evd_pc = "returned"
        /\ evd_ret.published_at # ""
        /\ evd_ret.days # None
        /\ IF UploadResolves(evd_watch)
           THEN LET dt == ParseUploadDate(UploadDateMatch(WatchHtml(evd_watch)))
                IN /\ evd_ret.published_at = FormatYMD(dt.y, dt.m, dt.d)
                   /\ evd_ret.published_time = dt.time
           ELSE IF ApproxResolves(evd_approx)
           THEN /\ evd_ret.published_time = "00:00:00"
                /\ evd_ret.days = JInt(DaysOffset(lower(evd_approx.val),
                       IntOfDigits(SubSeq(evd_approx.val, FirstDigit(evd_approx.val),
                           DigitsEnd(evd_approx.val, FirstDigit(evd_approx.val))))))
           ELSE /\ evd_ret.published_at = FormatDate(evd_now.ordinal)
                /\ evd_ret.published_time = evd_now.time
                /\ evd_ret.days = JInt(0)

\* the signals of a scheduled or upcoming tile, read off a tile of the expected shape
FieldOf(v, k) == IF v.tag = "dict" THEN DictGet(v, Key(k), None) ELSE None

NamesUpcoming(v) ==
    /\ v.tag = "str"
    /\ (Contains(lower(v.val), "upcoming") \/ Contains(lower(v.val), "scheduled"))

SignalsUpcoming(video) ==
    \/ FieldOf(video, "upcomingEventData") # None
    \/ /\ FieldOf(video, "badges").tag = "list"
       /\ \E n \in 1..Len(FieldOf(video, "badges").val) :
              NamesUpcoming(FieldOf(FieldOf(FieldOf(video, "badges").val[n],
                                            "metadataBadgeRenderer"), "label"))
    \/ /\ FieldOf(video, "thumbnailOverlays").tag = "list"
       /\ \E n \in 1..Len(FieldOf(video, "thumbnailOverlays").val) :
              NamesUpcoming(FieldOf(FieldOf(FieldOf(
                  FieldOf(video, "thumbnailOverlays").val[n],
                  "thumbnailOverlayTimeStatusRenderer"), "text"), "simpleText"))
    \/ LET vc == FieldOf(FieldOf(video, "viewCountText"), "simpleText")
       IN /\ vc.tag = "str"
          /\ (Contains(lower(vc.val), "waiting") \/ Contains(lower(vc.val), "scheduled for"))

Range(q) == {q[p] : p \in 1..Len(q)}

CallsOf(name) == {p \in 1..Len(calls) : calls[p][1] = name}

\* the distinct tiles of the listing
Tiles == {videos_data[i] : i \in 1..Len(videos_data)}

\* C4: a tile classified scheduled or upcoming never gets a record and
\* extract_video_details is never invoked for it; every detail fetch comes after the
\* classification of the same tile.
C4_ScheduledNeverFetched ==
    /\ \A v \in Tiles :
           (is_scheduled_or_upcoming(v) = "True" \/ SignalsUpcoming(v))
               => \A p \in CallsOf("extract_video_details") \cup CallsOf("append") :
                      videos_data[calls[p][2]] # v
    /\ \A p \in CallsOf("extract_video_details") :
           \E q \in 1..(p - 1) : calls[q] = Classified(calls[p][2])
    /\ Cardinality(CallsOf("append")) = Len(livestream_data)

C4_Witness ==
    /\ main_pc = "done"
    /\ Len(livestream_data) > 0
    /\ \E i \in 1..Len(videos_data) :
           /\ is_scheduled_or_upcoming(videos_data[i]) = "True"
           /\ \E p \in 1..Len(calls) : calls[p] = Classified(i)
           /\ \E p \in 1..Len(calls) : calls[p] = Appended(i + 1)

DirectKeys(low) ==
    {n \in 1..Len(TEACHER_MAP_DIRECT) : Contains(low, TEACHER_MAP_DIRECT[n][1])}

\* C5: a title with no exact-phrase keyword and no higher-priority subject keyword
\* that contains "hindi" anywhere, also as its first word, gets the label of the
\* hindi subject keyword.
C5_HindiAnywhere ==
    (/\ tn_pc = "returned"
     /\ DirectKeys(lower(tn_title)) = {}
     /\ ~Contains(lower(tn_title), " evs")
     /\ ~Contains(lower(tn_title), "environmental studies")
     /\ ~Contains(lower(tn_title), "environment studies")
     /\ ~(Contains(lower(tn_title), "science") /\ ~Contains(lower(tn_title), "social"))
     /\ Contains(lower(tn_title), "hindi"))
        => teacher_name = "Isha Ma'am"

\* C6: a title holding an exact-phrase keyword gets the label of the earliest such
\* keyword in table order, wherever the keywords stand and whatever subject keyword
\* is there too.
C6_FirstTableKeyWins ==
    (tn_pc = "returned" /\ DirectKeys(lower(tn_title)) # {})
        => \E n \in DirectKeys(lower(tn_title)) :
               /\ \A k \in DirectKeys(lower(tn_title)) : n <= k
               /\ teacher_name = TEACHER_MAP_DIRECT[n][2]

C6_Witness ==
    /\ tn_pc = "returned"
    /\ Contains(lower(tn_title), "pooja")
    /\ Contains(lower(tn_title), "danish")
    /\ Contains(lower(tn_title), " hindi")
    /\ Find(lower(tn_title), "pooja", 1) < Find(lower(tn_title), "danish", 1)
    /\ teacher_name = "Danish Sir"

\* C7: classifying a tile and reading its fields in main never raises, whatever
\* fields are absent, null or of another shape.
C7_MalformedFieldsNeverRaise ==
    ~(/\ main_pc = "raised"
      /\ raised_at \in {"is_scheduled_or_upcoming", "title", "parse_duration_text"})

\* the tiles of the first listing URL that answers 200 with at least one tile
RECURSIVE FirstListing(_, _)
FirstListing(answers, n) ==
    IF n > Len(answers) THEN <<>>
    ELSE IF ~answers[n].transport /\ answers[n].status_code = 200 /\ answers[n].tiles # <<>>
         THEN answers[n].tiles
    ELSE FirstListing(answers, n + 1)

\* C8: fetch_channel_videos returns the tiles of the first of /streams, /videos and
\* the channel root that yields a tile, skipping every variant whose fetch fails
\* (a status other than 200, a transport error) or holds no structure, and main
\* reports zero items without raising when all fail.
C8_FailedVariantsSkipped ==
    fc_pc # "call" =>
        /\ fc_pc \in {"returned", "reported"}
        /\ videos = JList(FirstListing(fc_responses, 1))
        /\ fc_pc = "reported" => total = Len(FirstListing(fc_responses, 1))

\* the day-offset of a unit word
UnitFactor(u) ==
    IF u \in {"minute", "minutes", "hour", "hours"} THEN 0
    ELSE IF u \in {"day", "days"} THEN 1
    ELSE IF u \in {"week", "weeks"} THEN 7
    ELSE IF u \in {"month", "months"} THEN 30
    ELSE 365

UnitWords ==
    {"minute", "minutes", "hour", "hours", "day", "days", "week", "weeks",
     "month", "months", "year", "years"}

CountValues == (0..MaxCount) \cup {14, 3000}

\* C9: "<n> <unit> ago" gives offset 0 for minute and hour, n for day, 7n for week,
\* 30n for month, 365n for year and the date of today minus the offset; every other
\* text gives (None, None).
C9_RelativeOffsets ==
    rel_pc # "call" =>
        /\ rel_pc = "returned"
        /\ IF \E n \in CountValues, u \in UnitWords :
                  rel_text = JStr(IntToStr(n) \o " " \o u \o " ago")
           THEN \E n \in CountValues, u \in UnitWords :
                  /\ rel_text = JStr(IntToStr(n) \o " " \o u \o " ago")
                  /\ rel_ret = [date |-> JStr(FormatDate(rel_today - n * UnitFactor(u))),
                                days |-> JInt(n * UnitFactor(u))]
           ELSE rel_ret = Unresolved

\* the tiles main assembles a record for
Accepted(video) ==
    /\ is_scheduled_or_upcoming(video) = "False"
    /\ Truthy(safe_get(video, <<Key("videoId")>>, None))

\* the tiles of the calls of one name, in the order of the calls
RECURSIVE TilesOf(_, _)
TilesOf(name, p) ==
    IF p > Len(calls) THEN <<>>
    ELSE (IF calls[p][1] = name THEN <<calls[p][2]>> ELSE <<>>) \o TilesOf(name, p + 1)

====
